---- MODULE Spec2Model ----
(***************************************************************************)
(* RedacaoEvaluator (src/src/evaluation.py): the theme gate, the five      *)
(* criterion evaluations, the aggregation and the narrative, together with *)
(* safe_api_call, the retrying generation client shared with RAGSystem     *)
(* (src/src/rag.py).                                                       *)
(*                                                                         *)
(* One behaviour is one top-level call: either evaluate_redacao(essay,     *)
(* tema) or a direct safe_api_call(prompt, attempt, max_attempts).  The    *)
(* retrieval index and the generation service are the environment: a       *)
(* similarity search succeeds or raises, a generation request raises one   *)
(* of Errors or returns one of the raw replies of RawReplies.              *)
(***************************************************************************)
EXTENDS Integers, Sequences, FiniteSets, TLC

VARIABLES
    pc,            \* "idle", "retrieve", "call", "done", "returned", "raised"
    caller,        \* "none", "evaluate_redacao" or "direct" (safe_api_call called directly)
    redacao_text,  \* argument of evaluate_redacao
    tema,          \* argument of evaluate_redacao
    step,          \* 0 = verificar_aderencia_tema, i = avaliar_competencia_i
    verificacao,   \* evaluate_redacao's local: the parsed theme verdict
    resultados,    \* evaluate_redacao's local: competencia_i -> parsed reply
    keyOrder,      \* the keys of the competencias dictionary in insertion order
    searches,      \* similarity searches issued so far, in order
    apiCalls,      \* safe_api_call invocations made by evaluate_redacao's steps
    replies,       \* replies the generation service returned to those invocations
    attempt,       \* safe_api_call's parameter in the innermost frame
    attempt0,      \* the attempt argument of the outermost safe_api_call frame
    max_attempts,  \* safe_api_call's parameter
    requests,      \* service requests made by the current safe_api_call
    sleeps,        \* the wait_time of every time.sleep of the current safe_api_call
    errLog,        \* the service errors met by the current safe_api_call, in order
    rawReply,      \* the raw reply in whose step's processing an exception rose, else <<>>
    ret,           \* value returned by a direct safe_api_call
    result,        \* value returned by evaluate_redacao
    error,         \* exception raised to the caller
    parseInput,    \* the text handed to the JSON extraction on its own
    parseOutput,   \* what the extraction made of parseInput, None before it ran
    evaluator,     \* the attributes __init__ sets on the RedacaoEvaluator
    frames,        \* interleaved calls: call -> the locals of its evaluate_redacao frame
    dicts,         \* interleaved calls: the dictionaries created by resultados = {}
    received,      \* interleaved calls: call -> the parsed replies it was given, in order
    args,          \* the arguments of a function called on its own, None if none is
    returned,      \* what that function returned, None before it did
    session_state, \* the page: st.session_state
    run,           \* the page: the last run of the script and what it rendered
    cache          \* the page: the st.cache_resource store

vars == <<pc, caller, redacao_text, tema, step, verificacao, resultados, keyOrder, searches,
          apiCalls, replies, attempt, attempt0, max_attempts, requests, sleeps, errLog,
          rawReply, ret, result, error, parseInput, parseOutput,
          evaluator, frames, dicts, received, args, returned,
          session_state, run, cache>>

parseVars == <<parseInput, parseOutput>>

twoVars == <<evaluator, frames, dicts, received>>

fnVars == <<args, returned>>

appVars == <<session_state, run, cache>>

evalVars == <<redacao_text, tema, step, verificacao, resultados, keyOrder, searches,
              apiCalls, replies>>

----------------------------------------------------------------------------
(* Bounds and inputs *)

\* largest attempt / max_attempts argument of a direct safe_api_call
MaxArg == 3

\* (essay, topic) pairs submitted to evaluate_redacao
Submissions == {<<"redacao_a", "tema_a">>, <<"redacao_b", "tema_b">>}

\* messages of the exceptions the generation service raises
Errors == {"timeout", "overloaded"}

\* a direct call meets both errors; inside evaluate_redacao one is enough
ServiceErrors == IF caller = "direct" THEN Errors ELSE {"timeout"}

None == [kind |-> "none"]

----------------------------------------------------------------------------
(* Texts.  A text is the sequence of its sentences ("A. B." is <<"A","B">>),*)
(* so that split('.')[0] is its first sentence.                             *)

TextsX == [analise       |-> <<"Dominio ADEQUADO", "Poucos desvios">>,
           pontos_fortes |-> <<"forte x">>,
           pontos_fracos |-> <<"fraco x">>,
           sugestoes     |-> <<"sugestao x">>]

TextsY == [analise       |-> <<"Texto Irregular">>,
           pontos_fortes |-> <<"forte y">>,
           pontos_fracos |-> <<"fraco y">>,
           sugestoes     |-> <<"sugestao y">>]

Crit(n, T) == [pontuacao |-> n, analise |-> T.analise,
               pontos_fortes |-> T.pontos_fortes,
               pontos_fracos |-> T.pontos_fracos, sugestoes |-> T.sugestoes]

\* objects the service may put in a criterion reply; the last lacks "pontuacao"
CriterionPayloads ==
    { Crit(0, TextsX), Crit(199, TextsY), Crit(200, TextsX), Crit(200, TextsY),
      Crit(0 - 40, TextsX),
      [analise |-> TextsX.analise, pontos_fortes |-> TextsX.pontos_fortes,
       pontos_fracos |-> TextsX.pontos_fracos, sugestoes |-> TextsX.sugestoes] }

\* a score above the scale, and an object that carries the score alone
OverRange == Crit(240, TextsX)
ScoreOnly == [pontuacao |-> 120]

\* further objects the service may put in the reply of criterion i
StepPayloads(i) ==
    IF i = 4 THEN {ScoreOnly} ELSE IF i = 5 THEN {OverRange} ELSE {}

Verdict(a) == [aderencia |-> a, justificativa |-> <<"justificativa">>,
               recomendacoes |-> <<"recomendacoes">>]

\* objects the service may put in a theme reply; the last lacks "aderencia"
ThemePayloads ==
    { Verdict("Adequada"), Verdict("Tangenciamento"), Verdict("Fuga ao tema"),
      Verdict("Parcial"), [justificativa |-> <<"justificativa">>] }

----------------------------------------------------------------------------
(* Raw replies: sequences of tokens *)

Prose == [t |-> "prose"]
Ws == [t |-> "ws"]
\* the opening marker of a labelled fence (three backquotes and json)
Open == [t |-> "fence_json"]
\* three backquotes
Close == [t |-> "fence"]
Json(v) == [t |-> "json", v |-> v]

\* the replies the service may give when the objects it may emit are P: each
\* object bare; p0 fenced with prose around, in the first of two fenced blocks,
\* and before a second opening marker; then the malformed ones
RawReplies(P, p0) ==
    { <<Json(p)>> : p \in P }
    \cup { <<Prose, Open, Ws, Json(p0), Ws, Close, Prose>>,
           <<Open, Json(p0), Close, Open, Prose, Close>>,
           <<Open, Json(p0), Open, Prose, Close>> }
    \cup { <<Prose>>, <<Open, Prose, Close>>, <<Open, Ws, Close>>,
           <<Open, Json(p0)>>, <<Prose, Json(p0)>> }

----------------------------------------------------------------------------
(* Extracting the JSON of a reply: re.search(r'```json\s*(.*?)\s*```',     *)
(* resultado, re.DOTALL) followed by json.loads                             *)

Min(S) == CHOOSE x \in S : \A y \in S : x <= y

\* both markers begin with the three backquotes that end the pattern
IsFence(tok) == tok.t \in {"fence_json", "fence"}

RECURSIVE LStrip(_)
LStrip(s) == IF s # <<>> /\ Head(s) = Ws THEN LStrip(Tail(s)) ELSE s

RECURSIVE RStrip(_)
RStrip(s) == IF s # <<>> /\ s[Len(s)] = Ws THEN RStrip(SubSeq(s, 1, Len(s) - 1)) ELSE s

Strip(s) == RStrip(LStrip(s))

\* variant: the group runs to the last closing marker (.* for .*?)
ReSearchGreedy(raw) ==
    LET starts == { i \in 1..Len(raw) :
                      /\ raw[i] = Open
                      /\ \E j \in (i+1)..Len(raw) : IsFence(raw[j]) }
    IN  IF starts = {} THEN [found |-> FALSE, group1 |-> <<>>]
        ELSE LET i == Min(starts)
                 ends == { k \in (i+1)..Len(raw) : IsFence(raw[k]) }
                 j == CHOOSE k \in ends : \A l \in ends : l <= k
             IN  [found |-> TRUE, group1 |-> Strip(SubSeq(raw, i + 1, j - 1))]

\* the leftmost match: the first opening marker that some later marker closes;
\* group 1 runs (lazily) to the nearest such marker, white space stripped
ReSearch(raw) ==
    LET starts == { i \in 1..Len(raw) :
                      /\ raw[i] = Open
                      /\ \E j \in (i+1)..Len(raw) : IsFence(raw[j]) }
    IN  IF starts = {} THEN [found |-> FALSE, group1 |-> <<>>]
        ELSE LET i == Min(starts)
                 j == Min({ k \in (i+1)..Len(raw) : IsFence(raw[k]) })
             IN  [found |-> TRUE, group1 |-> Strip(SubSeq(raw, i + 1, j - 1))]

\* json.loads: exactly one JSON value, white space around it allowed
JsonLoads(json_str) ==
    LET s == Strip(json_str)
    IN  IF Len(s) = 1 /\ s[1].t = "json"
        THEN [ok |-> TRUE, v |-> s[1].v]
        ELSE [ok |-> FALSE, v |-> None]

\* the try block of every step: the fenced interior if there is a match,
\* the whole reply otherwise
ParseReply(raw) ==
    LET json_match == ReSearch(raw)
        json_str == IF json_match.found THEN json_match.group1 ELSE raw
    IN  JsonLoads(json_str)

StepLabel(i) ==
    IF i = 0 THEN "verificacao de tema"
    ELSE <<"Competencia 1", "Competencia 2", "Competencia 3",
           "Competencia 4", "Competencia 5">>[i]

\* variant: the message shows the extracted json_str instead of the reply
ParseErrorJsonStr(i, resultado) ==
    [msg |-> "Erro ao processar resultado", etapa |-> StepLabel(i),
     cause |-> "JSONDecodeError",
     resposta |-> IF ReSearch(resultado).found
                    THEN ReSearch(resultado).group1 ELSE resultado]

\* the except clause of every step; resultado still holds the raw reply there
ParseError(i, resultado) ==
    [msg |-> "Erro ao processar resultado", etapa |-> StepLabel(i),
     cause |-> "JSONDecodeError", resposta |-> resultado]

KeyError(k) == [cause |-> "KeyError", key |-> k]

RetrievalError == [cause |-> "RetrievalUnavailable"]

----------------------------------------------------------------------------
(* safe_api_call *)

\* defaults of safe_api_call(self, prompt, attempt=0, max_attempts=3)
DefaultAttempt == 0
DefaultMaxAttempts == 3

\* variant: the exponent counts retries from 1
WaitTimeFromTwo(a) == 2 ^ (a + 1)

\* wait_time = 2 ** attempt
WaitTime(a) == 2 ^ a

\* variant: the last attempt is retried too
MayRetryInclusive(a, m) == a <= m

\* if attempt < max_attempts: sleep and call safe_api_call again
MayRetry(a, m) == a < m

\* variant: the outermost frame's exception is reported instead of the last
ExhaustedErrorFirst(m, e) ==
    [msg |-> "Erro na API apos", tentativas |-> m,
     cause |-> IF errLog = <<>> THEN e ELSE errLog[1]]

\* raise Exception(f"Erro na API apos {max_attempts} tentativas: {str(e)}")
ExhaustedError(m, e) == [msg |-> "Erro na API apos", tentativas |-> m, cause |-> e]

----------------------------------------------------------------------------
(* evaluate_redacao: aggregation and narrative *)

\* variant: the fourth call's reply is stored under the fifth key and the
\* fifth's under the fourth
CompKeysSwapped == <<"competencia_1", "competencia_2", "competencia_3",
                     "competencia_5", "competencia_4">>

\* the key each avaliar_competencia_<i> reply is stored under
CompKeys == <<"competencia_1", "competencia_2", "competencia_3",
              "competencia_4", "competencia_5">>

\* d[k] = v on a dictionary whose keys were inserted in the order given: a new
\* key goes last, a key already there keeps its place
DictInsert(order, k) ==
    IF \E i \in DOMAIN order : order[i] = k THEN order ELSE Append(order, k)

\* variant: the first criterion filters on a category named after its query
StepCategoriaNorma == <<"tema", "norma", "tema", "argumentacao", "coesao", "intervencao">>

\* category and k of the similarity search of each step (index step + 1)
StepCategoria == <<"tema", "norma_culta", "tema", "argumentacao", "coesao", "intervencao">>
StepK == <<3, 2, 2, 2, 2, 2>>

StepSearch(i) == [categorias |-> StepCategoria[i + 1], k |-> StepK[i + 1]]

AderenciaFuga == "Fuga ao tema"

\* variant: the literal compared against differs in case
IsFugaCaseSlip(v) == v.aderencia = "Fuga ao Tema"

\* variant: the test is negated
IsFugaInverted(v) == v.aderencia # AderenciaFuga

\* if verificacao["aderencia"] == "Fuga ao tema"
IsFuga(v) == v.aderencia = AderenciaFuga

NA == <<"N/A">>

\* variant: the short-circuit entries carry the score alone
CritNAScoreOnly == [pontuacao |-> 0]

CritNA == [pontuacao |-> 0, analise |-> NA, pontos_fortes |-> NA,
           pontos_fracos |-> NA, sugestoes |-> NA]

\* the order in which the off-topic literal writes its competencias
OffTopicKeys == <<"competencia_1", "competencia_2", "competencia_3",
                  "competencia_4", "competencia_5">>

\* the literal returned when the theme gate says "Fuga ao tema"
OffTopicResult ==
    [nota_final |-> 0,
     competencias |-> [k \in {CompKeys[i] : i \in 1..5} |-> CritNA],
     avaliacao_geral |->
        [avaliacao_geral |-> <<"Redacao com fuga ao tema.">>,
         competencia_mais_forte |-> NA,
         competencia_mais_fraca |-> NA,
         sugestoes_prioritarias |-> <<"Revisar compreensao do tema proposto.">>,
         conclusao |-> <<"A redacao apresenta fuga ao tema.">>]]

nomes_comp == [competencia_1 |-> "Dominio da norma padrao",
               competencia_2 |-> "Compreensao do tema",
               competencia_3 |-> "Argumentacao",
               competencia_4 |-> "Coesao textual",
               competencia_5 |-> "Proposta de intervencao"]

RECURSIVE SumTo(_, _)
SumTo(res, n) == IF n = 0 THEN 0 ELSE SumTo(res, n - 1) + res[CompKeys[n]].pontuacao

\* variant: every score is brought into 0..200 before it is added
RECURSIVE SumClampedTo(_, _)
SumClampedTo(res, n) ==
    IF n = 0 THEN 0
    ELSE LET p == res[CompKeys[n]].pontuacao
         IN  SumClampedTo(res, n - 1) + (IF p < 0 THEN 0 ELSE IF p > 200 THEN 200 ELSE p)

NotaFinalClamped(res) == SumClampedTo(res, 5)

\* variant: the last criterion is left out of the sum
NotaFinalFirstFour(res) == SumTo(res, 4)

\* sum([r["pontuacao"] for r in resultados.values()])
NotaFinal(res) == SumTo(res, 5)

\* variant: the last of the maximal ones is taken
CompMaisForteLast(res) ==
    LET S == { a \in 1..5 : \A b \in 1..5 :
                  res[CompKeys[a]].pontuacao >= res[CompKeys[b]].pontuacao }
        i == CHOOSE x \in S : \A y \in S : y <= x
    IN  <<CompKeys[i], res[CompKeys[i]].pontuacao>>

\* max(pontuacoes, key=lambda x: x[1]): the first of the maximal ones
CompMaisForte(res) ==
    LET i == Min({ a \in 1..5 : \A b \in 1..5 :
                      res[CompKeys[a]].pontuacao >= res[CompKeys[b]].pontuacao })
    IN  <<CompKeys[i], res[CompKeys[i]].pontuacao>>

\* variant: the weakest is taken with max as well
CompMaisFracaMax(res) ==
    LET i == Min({ a \in 1..5 : \A b \in 1..5 :
                      res[CompKeys[a]].pontuacao >= res[CompKeys[b]].pontuacao })
    IN  <<CompKeys[i], res[CompKeys[i]].pontuacao>>

\* min(pontuacoes, key=lambda x: x[1]): the first of the minimal ones
CompMaisFraca(res) ==
    LET i == Min({ a \in 1..5 : \A b \in 1..5 :
                      res[CompKeys[a]].pontuacao <= res[CompKeys[b]].pontuacao })
    IN  <<CompKeys[i], res[CompKeys[i]].pontuacao>>

\* variant: strict comparisons
NivelExclusive(nota_total) ==
    IF nota_total > 800 THEN "excelente"
    ELSE IF nota_total > 600 THEN "bom"
    ELSE IF nota_total > 400 THEN "medio"
    ELSE "insuficiente"

\* variant: the chain tests its lowest threshold first
NivelLowFirst(nota_total) ==
    IF nota_total >= 400 THEN "medio"
    ELSE IF nota_total >= 600 THEN "bom"
    ELSE IF nota_total >= 800 THEN "excelente"
    ELSE "insuficiente"

\* the if / elif chain over nota_total
Nivel(nota_total) ==
    IF nota_total >= 800 THEN "excelente"
    ELSE IF nota_total >= 600 THEN "bom"
    ELSE IF nota_total >= 400 THEN "medio"
    ELSE "insuficiente"

Conclusao(nivel) ==
    CASE nivel = "excelente" -> <<"A redacao apresenta um nivel excelente">>
      [] nivel = "bom" -> <<"A redacao apresenta um bom nivel">>
      [] nivel = "medio" -> <<"A redacao apresenta um nivel medio">>
      [] OTHER -> <<"A redacao apresenta um nivel insuficiente">>

\* str.lower() on the sentences the replies carry
Lower(s) ==
    CASE s = "Dominio ADEQUADO" -> "dominio adequado"
      [] s = "Texto Irregular" -> "texto irregular"
      [] s = "N/A" -> "n/a"
      [] OTHER -> s

\* variant: the last sentence is taken (split('.')[-1] on a text without a
\* final full stop)
FirstSentenceLast(text) == IF text = <<>> THEN "" ELSE text[Len(text)]

\* text.split('.')[0]
FirstSentence(text) == IF text = <<>> THEN "" ELSE text[1]

gerar_avaliacao_geral(res, comp_mais_forte, comp_mais_fraca) ==
    LET nota_total == NotaFinal(res)
        forte_id == comp_mais_forte[1]
        fraca_id == comp_mais_fraca[1]
        nivel == Nivel(nota_total)
    IN  [avaliacao_geral |->
            <<"A redacao obteve", ToString(nota_total), "pontos de 1000 possiveis, nivel",
              nivel, "O texto demonstra",
              Lower(FirstSentence(res["competencia_1"].analise)),
              Lower(FirstSentence(res["competencia_2"].analise)),
              Lower(FirstSentence(res["competencia_3"].analise))>>,
         competencia_mais_forte |->
            <<"A competencia mais forte e", nomes_comp[forte_id],
              ToString(comp_mais_forte[2])>> \o res[forte_id].pontos_fortes,
         competencia_mais_fraca |->
            <<"A competencia mais fraca e", nomes_comp[fraca_id],
              ToString(comp_mais_fraca[2])>> \o res[fraca_id].pontos_fracos,
         sugestoes_prioritarias |->
            <<"Priorize melhorar a competencia", nomes_comp[fraca_id]>>
                \o res[fraca_id].sugestoes,
         conclusao |-> Conclusao(nivel)]

\* the first subscript of the aggregation that raises KeyError, if any
MissingKey(res) ==
    IF \E i \in 1..5 : "pontuacao" \notin DOMAIN res[CompKeys[i]] THEN "pontuacao"
    ELSE IF "pontos_fortes" \notin DOMAIN res[CompMaisForte(res)[1]] THEN "pontos_fortes"
    ELSE IF "pontos_fracos" \notin DOMAIN res[CompMaisFraca(res)[1]] THEN "pontos_fracos"
    ELSE IF "sugestoes" \notin DOMAIN res[CompMaisFraca(res)[1]] THEN "sugestoes"
    ELSE IF \E i \in 1..3 : "analise" \notin DOMAIN res[CompKeys[i]] THEN "analise"
    ELSE ""

\* the dictionary evaluate_redacao returns after the five criteria
FullResult(res) ==
    [nota_final |-> NotaFinal(res),
     competencias |-> res,
     avaliacao_geral |-> gerar_avaliacao_geral(res, CompMaisForte(res), CompMaisFraca(res))]

----------------------------------------------------------------------------
(* The page (src/app.py).  Streamlit executes the script from top to bottom *)
(* on every interaction, in a fresh namespace: only st.session_state, the   *)
(* widget values and the st.cache_resource store outlive a run.  While a    *)
(* rerun is pending or under way the page last rendered stays on screen,    *)
(* and an interaction with it replaces the pending run by its own.          *)

Models == {"anthropic", "openai"}

\* st.session_state after lines 26-39; modelo_selection is the radio's key.
\* avaliada is bookkeeping: the essay and topic evaluate_redacao was given
\* for the avaliacao held.
InitialSession ==
    [avaliacao |-> None, redacao_submetida |-> FALSE, redacao_text |-> "", tema |-> "",
     verificacao_tema |-> None, avaliador_carregado |-> FALSE, api_model |-> "anthropic",
     modelo_selection |-> "anthropic", sugestao_estrutura |-> None, avaliada |-> None]

\* no run of the script has taken place
NoRun ==
    [event |-> "none", evaluator |-> "unbound", processed |-> FALSE, rerun |-> FALSE,
     messages |-> {}, submit_disabled |-> TRUE, buttons |-> {}]

\* the st.cache_resource store of carregar_avaliadores, by argument
EmptyCache == [m \in Models |-> "empty"]

\* what carregar_avaliadores(use_anthropic) may return when it runs: the pair
\* of objects, or (None, None) when the database is missing or a constructor
\* raises
LoadOutcomes == {"object", "none"}

\* texts typed into the form
FormTexts == {"redacao_a", "redacao_b", "curta"}
FormTemas == {"tema_a", "t"}

\* len(x.strip()) of the texts typed
StrippedLen(x) ==
    CASE x = "curta" -> 20
      [] x = "t" -> 1
      [] x \in {"redacao_a", "redacao_b"} -> 120
      [] OTHER -> 12

MinRedacaoLen == 100
MinTemaLen == 10

\* what evaluator.verificar_aderencia_tema may do on the page
AppGateOutcomes ==
    { [raised |-> TRUE, v |-> None] }
        \cup { [raised |-> FALSE, v |-> Verdict(a)] : a \in {"Adequada", AderenciaFuga} }

\* what evaluator.evaluate_redacao may do on the page: it asks for the theme
\* verdict again and returns the zero-score result or a scored one, or raises
AppEvaluateOutcomes ==
    { [raised |-> TRUE, v |-> None],
      [raised |-> FALSE, v |-> OffTopicResult],
      [raised |-> FALSE, v |-> FullResult([k \in {CompKeys[i] : i \in 1..5} |->
                                              Crit(200, TextsX)])] }

\* lines 100-115: the radio against api_model, then the load when the flag
\* is not set.  evaluator is assigned at line 110 only.
Sidebar(ss, store, outcome) ==
    IF ss.modelo_selection # ss.api_model
    THEN [ss |-> [ss EXCEPT !.api_model = ss.modelo_selection,
                            !.avaliador_carregado = FALSE],
          store |-> store, evaluator |-> "unbound", rerun |-> TRUE, messages |-> {}]
    ELSE IF ~ss.avaliador_carregado
    THEN LET got == IF store[ss.api_model] = "empty" THEN outcome
                    ELSE store[ss.api_model]
         IN  [ss |-> [ss EXCEPT !.avaliador_carregado = (got = "object")],
              store |-> [store EXCEPT ![ss.api_model] = got],
              evaluator |-> got, rerun |-> FALSE,
              messages |-> IF got = "object" THEN {"Avaliador carregado"}
                           ELSE {"Falha ao carregar o avaliador"}]
    ELSE [ss |-> ss, store |-> store, evaluator |-> "unbound", rerun |-> FALSE,
          messages |-> {}]

AllButtons == {"Sugerir Estrutura", "Tentar Novamente", "Analisar Nova Redacao"}

\* the buttons the page shows enabled at the end of a run
Buttons(ss) ==
    (IF ss.avaliador_carregado THEN {"Sugerir Estrutura"} ELSE {})
        \cup (IF ss.verificacao_tema # None /\ IsFuga(ss.verificacao_tema)
              THEN {"Tentar Novamente"} ELSE {})
        \cup (IF ss.avaliacao # None THEN {"Analisar Nova Redacao"} ELSE {})

\* lines 161-225: the submission.  A use of evaluator that is not bound, or
\* bound to None, raises inside the try blocks.
ProcessaSubmissao(ss, ev, texto, t, gate, aval) ==
    IF StrippedLen(texto) < MinRedacaoLen
    THEN [ss |-> ss, processed |-> FALSE, messages |-> {"O texto da redacao e muito curto"}]
    ELSE IF StrippedLen(t) < MinTemaLen
    THEN [ss |-> ss, processed |-> FALSE, messages |-> {"Insira o tema completo"}]
    ELSE LET s1 == [ss EXCEPT !.redacao_submetida = TRUE, !.redacao_text = texto,
                              !.tema = t]
             gateFails == ev # "object" \/ gate.raised
             s2 == [s1 EXCEPT !.verificacao_tema = IF gateFails THEN None ELSE gate.v]
             goesOn == s2.verificacao_tema # None
                          /\ s2.verificacao_tema.aderencia # AderenciaFuga
         IN  IF gateFails
             THEN [ss |-> s2, processed |-> TRUE, messages |-> {"Erro ao verificar tema"}]
             ELSE IF ~goesOn
             THEN [ss |-> s2, processed |-> TRUE, messages |-> {}]
             ELSE IF aval.raised
             THEN [ss |-> s2, processed |-> TRUE, messages |-> {"Erro na analise"}]
             ELSE [ss |-> [s2 EXCEPT !.avaliacao = aval.v,
                                     !.avaliada = [redacao_text |-> texto, tema |-> t]],
                   processed |-> TRUE, messages |-> {"Analise concluida"}]

----------------------------------------------------------------------------
(* Ingestion (src/src/preprocessing.py): the category of a document.  A     *)
(* file name is the set of the stems tested for that occur in it.           *)

FilenameStems == {"norma", "gramatic", "tema", "compreens", "argument", "coes",
                  "interven", "proposta", "estrutura", "exemplo", "introduc",
                  "desenvolv", "conclus"}

\* file names holding none, one or two of the stems
Filenames == { f \in SUBSET FilenameStems : Cardinality(f) <= 2 }

get_document_category(filename) ==
    IF "norma" \in filename \/ "gramatic" \in filename THEN "norma_culta"
    ELSE IF "tema" \in filename \/ "compreens" \in filename THEN "tema"
    ELSE IF "argument" \in filename THEN "argumentacao"
    ELSE IF "coes" \in filename THEN "coesao"
    ELSE IF "interven" \in filename \/ "proposta" \in filename THEN "intervencao"
    ELSE IF "estrutura" \in filename THEN "estrutura"
    ELSE IF \/ "exemplo" \in filename \/ "introduc" \in filename
            \/ "desenvolv" \in filename \/ "conclus" \in filename THEN "exemplos"
    ELSE "geral"

\* the categories ingestion can assign
CategoryVocabulary == { get_document_category(f) : f \in Filenames }

----------------------------------------------------------------------------
(* State machine *)

EmptyDict == [k \in {} |-> None]

\* __init__(vector_db_path, use_anthropic): the four attributes it sets
NewEvaluator(use_anthropic) ==
    [vectorstore |-> "chroma",
     client |-> IF use_anthropic THEN "Anthropic" ELSE "OpenAI",
     model |-> IF use_anthropic THEN "claude-3-5-haiku-20240307" ELSE "gpt-4o-mini",
     use_anthropic |-> use_anthropic]

\* the evaluate_redacao calls that may be in progress on one evaluator
Calls == {1, 2}

\* the locals of an evaluate_redacao frame before the call is made
IdleFrame == [pc |-> "idle", redacao_text |-> "", tema |-> "", step |-> 0,
              verificacao |-> None, result |-> None, error |-> None]

\* replies given to a direct safe_api_call
DirectReplies == { <<Prose>>, <<Json(Verdict("Adequada"))>> }

Init ==
    /\ pc = "idle"
    /\ caller = "none"
    /\ redacao_text = ""
    /\ tema = ""
    /\ step = 0
    /\ verificacao = None
    /\ resultados = EmptyDict
    /\ keyOrder = <<>>
    /\ searches = <<>>
    /\ apiCalls = 0
    /\ replies = 0
    /\ attempt = DefaultAttempt
    /\ attempt0 = DefaultAttempt
    /\ max_attempts = DefaultMaxAttempts
    /\ requests = 0
    /\ sleeps = <<>>
    /\ errLog = <<>>
    /\ rawReply = <<>>
    /\ ret = <<>>
    /\ result = None
    /\ error = None
    /\ parseInput = <<>>
    /\ parseOutput = None
    /\ evaluator = NewEvaluator(TRUE)
    /\ frames = [c \in Calls |-> IdleFrame]
    /\ dicts = [c \in Calls |-> EmptyDict]
    /\ received = [c \in Calls |-> <<>>]
    /\ args = None
    /\ returned = None
    /\ session_state = InitialSession
    /\ run = NoRun
    /\ cache = EmptyCache

\* a new outermost safe_api_call frame
EnterSafeApiCall(a, m) ==
    /\ attempt' = a
    /\ attempt0' = a
    /\ max_attempts' = m
    /\ requests' = 0
    /\ sleeps' = <<>>
    /\ errLog' = <<>>

\* safe_api_call returned to evaluate_redacao: its frames are gone
LeaveSafeApiCall ==
    /\ attempt' = DefaultAttempt
    /\ attempt0' = DefaultAttempt
    /\ max_attempts' = DefaultMaxAttempts
    /\ requests' = 0
    /\ sleeps' = <<>>
    /\ errLog' = <<>>

\* variant: the exception is caught and what was scored so far is returned
RaiseSwallowed(e) ==
    /\ pc' = "done"
    /\ error' = None
    /\ result' = [nota_final |-> 0, competencias |-> resultados,
                  avaliacao_geral |-> OffTopicResult.avaliacao_geral]
    /\ UNCHANGED <<verificacao, resultados, keyOrder, ret>>

\* an exception leaves evaluate_redacao: nothing is returned, its locals are gone
Raise(e) ==
    /\ pc' = "raised"
    /\ error' = e
    /\ verificacao' = None
    /\ resultados' = EmptyDict
    /\ keyOrder' = <<>>
    /\ UNCHANGED <<result, ret>>

\* variant: a reply that does not parse is asked for again
ParseFailsAsksAgain(raw) ==
    /\ pc' = "call"
    /\ UNCHANGED <<error, verificacao, resultados, keyOrder, result, ret, rawReply, step>>

\* json.loads raises inside the try block of the current step: the except
\* clause raises the step's error, which nothing catches
ParseFails(raw) ==
    /\ Raise(ParseError(step, raw))
    /\ rawReply' = raw
    /\ UNCHANGED step

\* the caller invokes evaluate_redacao(redacao_text, tema)
EvaluateRedacao(sub) ==
    /\ pc = "idle"
    /\ pc' = "retrieve"
    /\ caller' = "evaluate_redacao"
    /\ redacao_text' = sub[1]
    /\ tema' = sub[2]
    /\ UNCHANGED <<step, verificacao, resultados, keyOrder, searches, apiCalls, replies, attempt,
                   attempt0, max_attempts, requests, sleeps, errLog, rawReply, ret, result,
                   error>>
    /\ UNCHANGED parseVars
    /\ UNCHANGED twoVars
    /\ UNCHANGED fnVars
    /\ UNCHANGED appVars

\* the caller invokes safe_api_call(prompt, a, m) itself
SafeApiCallDirect(a, m) ==
    /\ pc = "idle"
    /\ pc' = "call"
    /\ caller' = "direct"
    /\ EnterSafeApiCall(a, m)
    /\ UNCHANGED <<evalVars, rawReply, ret, result, error>>
    /\ UNCHANGED parseVars
    /\ UNCHANGED twoVars
    /\ UNCHANGED fnVars
    /\ UNCHANGED appVars

\* recuperar_documentos of the current step returns its documents; the step
\* builds its prompt and calls safe_api_call(prompt)
RecuperarDocumentos ==
    /\ pc = "retrieve"
    /\ searches' = Append(searches, StepSearch(step))
    /\ apiCalls' = apiCalls + 1
    /\ EnterSafeApiCall(DefaultAttempt, DefaultMaxAttempts)
    /\ pc' = "call"
    /\ UNCHANGED <<caller, redacao_text, tema, step, verificacao, resultados, keyOrder,
                   replies, rawReply, ret, result, error>>
    /\ UNCHANGED parseVars
    /\ UNCHANGED twoVars
    /\ UNCHANGED fnVars
    /\ UNCHANGED appVars

\* variant: a failed similarity search is attempted again
RetrievalFailsRetried ==
    /\ pc = "retrieve"
    /\ searches' = Append(searches, StepSearch(step))
    /\ UNCHANGED <<pc, caller, redacao_text, tema, step, verificacao, resultados, keyOrder,
                   apiCalls, replies, attempt, attempt0, max_attempts, requests, sleeps,
                   errLog, rawReply, ret, result, error>>
    /\ UNCHANGED parseVars
    /\ UNCHANGED twoVars
    /\ UNCHANGED fnVars
    /\ UNCHANGED appVars

\* similarity_search raises: nothing catches it
RetrievalFails ==
    /\ pc = "retrieve"
    /\ searches' = Append(searches, StepSearch(step))
    /\ Raise(RetrievalError)
    /\ UNCHANGED <<caller, redacao_text, tema, step, apiCalls, replies, attempt, attempt0,
                   max_attempts, requests, sleeps, errLog, rawReply>>
    /\ UNCHANGED parseVars
    /\ UNCHANGED twoVars
    /\ UNCHANGED fnVars
    /\ UNCHANGED appVars

\* one request of safe_api_call raises e: sleep and recurse, or give up
GenerationFails(e) ==
    /\ pc = "call"
    /\ requests' = requests + 1
    /\ errLog' = Append(errLog, e)
    /\ IF MayRetry(attempt, max_attempts)
         THEN /\ sleeps' = Append(sleeps, WaitTime(attempt))
              /\ attempt' = attempt + 1
              /\ UNCHANGED <<pc, error, verificacao, resultados, keyOrder, result, ret>>
         ELSE /\ Raise(ExhaustedError(max_attempts, e))
              /\ UNCHANGED <<sleeps, attempt>>
    /\ UNCHANGED <<caller, redacao_text, tema, step, searches, apiCalls, replies, attempt0,
                   max_attempts, rawReply>>
    /\ UNCHANGED parseVars
    /\ UNCHANGED twoVars
    /\ UNCHANGED fnVars
    /\ UNCHANGED appVars

\* one request of a direct safe_api_call succeeds: the text is returned
DirectReturns(raw) ==
    /\ pc = "call"
    /\ caller = "direct"
    /\ requests' = requests + 1
    /\ ret' = raw
    /\ pc' = "returned"
    /\ UNCHANGED <<caller, evalVars, attempt, attempt0, max_attempts, sleeps, errLog,
                   rawReply, result, error>>
    /\ UNCHANGED parseVars
    /\ UNCHANGED twoVars
    /\ UNCHANGED fnVars
    /\ UNCHANGED appVars

\* verificar_aderencia_tema receives the reply, parses it, and evaluate_redacao
\* tests the verdict
ThemeReply(raw) ==
    /\ pc = "call"
    /\ caller = "evaluate_redacao"
    /\ step = 0
    /\ LeaveSafeApiCall
    /\ LET parsed == ParseReply(raw)
       IN  IF ~parsed.ok
             THEN ParseFails(raw)
           ELSE IF "aderencia" \notin DOMAIN parsed.v
             THEN /\ Raise(KeyError("aderencia"))
                  /\ rawReply' = raw
                  /\ UNCHANGED step
           ELSE IF IsFuga(parsed.v)
             THEN /\ pc' = "done"
                  /\ result' = OffTopicResult
                  /\ verificacao' = parsed.v
                  /\ keyOrder' = OffTopicKeys
                  /\ UNCHANGED <<step, resultados, rawReply, error, ret>>
           ELSE   /\ pc' = "retrieve"
                  /\ step' = 1
                  /\ verificacao' = parsed.v
                  /\ UNCHANGED <<resultados, keyOrder, rawReply, result, error, ret>>
    /\ replies' = replies + 1
    /\ UNCHANGED <<caller, redacao_text, tema, searches, apiCalls>>
    /\ UNCHANGED parseVars
    /\ UNCHANGED twoVars
    /\ UNCHANGED fnVars
    /\ UNCHANGED appVars

\* avaliar_competencia_<step> receives the reply and parses it; after the
\* fifth, evaluate_redacao aggregates and returns
CriterionReply(raw) ==
    /\ pc = "call"
    /\ caller = "evaluate_redacao"
    /\ step \in 1..5
    /\ LeaveSafeApiCall
    /\ LET parsed == ParseReply(raw)
           res == resultados @@ (CompKeys[step] :> parsed.v)
       IN  IF ~parsed.ok
             THEN ParseFails(raw)
           ELSE IF step < 5
             THEN /\ resultados' = res
                  /\ keyOrder' = DictInsert(keyOrder, CompKeys[step])
                  /\ step' = step + 1
                  /\ pc' = "retrieve"
                  /\ UNCHANGED <<verificacao, rawReply, result, error, ret>>
           ELSE IF MissingKey(res) # ""
             THEN /\ Raise(KeyError(MissingKey(res)))
                  /\ UNCHANGED <<step, rawReply>>
           ELSE   /\ resultados' = res
                  /\ keyOrder' = DictInsert(keyOrder, CompKeys[step])
                  /\ result' = FullResult(res)
                  /\ pc' = "done"
                  /\ UNCHANGED <<step, verificacao, rawReply, error, ret>>
    /\ replies' = replies + 1
    /\ UNCHANGED <<caller, redacao_text, tema, searches, apiCalls>>
    /\ UNCHANGED parseVars
    /\ UNCHANGED twoVars
    /\ UNCHANGED fnVars
    /\ UNCHANGED appVars

Next ==
    \/ \E sub \in Submissions : EvaluateRedacao(sub)
    \/ \E a \in 0..MaxArg, m \in 0..MaxArg : SafeApiCallDirect(a, m)
    \/ RecuperarDocumentos
    \/ RetrievalFails
    \/ \E e \in ServiceErrors : GenerationFails(e)
    \/ \E raw \in DirectReplies : DirectReturns(raw)
    \/ \E raw \in RawReplies(ThemePayloads, Verdict("Adequada")) : ThemeReply(raw)
    \/ \E raw \in RawReplies(CriterionPayloads \cup StepPayloads(step), Crit(200, TextsX)) :
          CriterionReply(raw)

Spec == Init /\ [][Next]_vars

----------------------------------------------------------------------------
(* The JSON extraction on its own: every text of at most MaxRawLen tokens   *)
(* is handed to the try block shared by the six steps                       *)

\* longest text handed to the extraction
MaxRawLen == 5

Tokens == { Prose, Ws, Open, Close,
            Json(Verdict("Adequada")), Json(Verdict("Fuga ao tema")) }

RawTexts == UNION { [1..n -> Tokens] : n \in 0..MaxRawLen }

InitParse ==
    /\ pc = "parse"
    /\ caller = "none"
    /\ redacao_text = ""
    /\ tema = ""
    /\ step = 0
    /\ verificacao = None
    /\ resultados = EmptyDict
    /\ keyOrder = <<>>
    /\ searches = <<>>
    /\ apiCalls = 0
    /\ replies = 0
    /\ attempt = DefaultAttempt
    /\ attempt0 = DefaultAttempt
    /\ max_attempts = DefaultMaxAttempts
    /\ requests = 0
    /\ sleeps = <<>>
    /\ errLog = <<>>
    /\ rawReply = <<>>
    /\ ret = <<>>
    /\ result = None
    /\ error = None
    /\ parseInput \in RawTexts
    /\ parseOutput = None
    /\ evaluator = NewEvaluator(TRUE)
    /\ frames = [c \in Calls |-> IdleFrame]
    /\ dicts = [c \in Calls |-> EmptyDict]
    /\ received = [c \in Calls |-> <<>>]
    /\ args = None
    /\ returned = None
    /\ session_state = InitialSession
    /\ run = NoRun
    /\ cache = EmptyCache

\* the try block runs on the text
ParseStep ==
    /\ pc = "parse"
    /\ parseOutput' = ParseReply(parseInput)
    /\ pc' = "parsed"
    /\ UNCHANGED <<caller, evalVars, attempt, attempt0, max_attempts, requests, sleeps,
                   errLog, rawReply, ret, result, error, parseInput>>
    /\ UNCHANGED twoVars
    /\ UNCHANGED fnVars
    /\ UNCHANGED appVars

NextParse == ParseStep

SpecParse == InitParse /\ [][NextParse]_vars

----------------------------------------------------------------------------
(* Two evaluate_redacao calls in progress on the same RedacaoEvaluator, for *)
(* different essays, their steps interleaved.  safe_api_call is taken as a  *)
(* whole here: it returns a reply or gives up.                              *)

\* the submission each call is made with
EssayOf == <<<<"redacao_a", "tema_a">>, <<"redacao_b", "tema_b">>>>

\* variant: one dictionary kept on the evaluator serves every call
ResultadosShared(c) == 1

\* resultados = {} binds a dictionary of the call's own
ResultadosOf(c) == c

\* what the service may reply to the gate and to criterion i
GateReplies ==
    { <<Json(Verdict("Adequada"))>>, <<Json(Verdict("Fuga ao tema"))>>, <<Prose>> }

StepReplies(i) ==
    { <<Json(Crit(200, TextsX))>>, <<Open, Json(Crit(0, TextsY)), Close>>, <<Prose>> }
    \cup (IF i = 5 THEN { <<Json([analise |-> TextsX.analise])>> } ELSE {})

InitTwo ==
    /\ pc = "interleaved"
    /\ caller = "none"
    /\ redacao_text = ""
    /\ tema = ""
    /\ step = 0
    /\ verificacao = None
    /\ resultados = EmptyDict
    /\ keyOrder = <<>>
    /\ searches = <<>>
    /\ apiCalls = 0
    /\ replies = 0
    /\ attempt = DefaultAttempt
    /\ attempt0 = DefaultAttempt
    /\ max_attempts = DefaultMaxAttempts
    /\ requests = 0
    /\ sleeps = <<>>
    /\ errLog = <<>>
    /\ rawReply = <<>>
    /\ ret = <<>>
    /\ result = None
    /\ error = None
    /\ parseInput = <<>>
    /\ parseOutput = None
    /\ evaluator \in { NewEvaluator(TRUE), NewEvaluator(FALSE) }
    /\ frames = [c \in Calls |-> IdleFrame]
    /\ dicts = [c \in Calls |-> EmptyDict]
    /\ received = [c \in Calls |-> <<>>]
    /\ args = None
    /\ returned = None
    /\ session_state = InitialSession
    /\ run = NoRun
    /\ cache = EmptyCache

oneVars == <<pc, caller, evalVars, attempt, attempt0, max_attempts, requests, sleeps,
             errLog, rawReply, ret, result, error, parseVars, fnVars, appVars>>

\* an exception leaves call c: its locals are gone
RaiseIn(c, e) ==
    /\ frames' = [frames EXCEPT ![c] = [@ EXCEPT !.pc = "raised", !.error = e,
                                                 !.verificacao = None]]
    /\ dicts' = [dicts EXCEPT ![ResultadosOf(c)] = EmptyDict]
    /\ received' = [received EXCEPT ![c] = <<>>]

\* call c is made: evaluate_redacao(redacao_text, tema)
CallEvaluate(c) ==
    /\ pc = "interleaved"
    /\ frames[c].pc = "idle"
    /\ frames' = [frames EXCEPT ![c] = [@ EXCEPT !.pc = "retrieve",
                                                 !.redacao_text = EssayOf[c][1],
                                                 !.tema = EssayOf[c][2]]]
    /\ UNCHANGED <<evaluator, dicts, received, oneVars>>

\* the similarity search of call c's current step returns
SearchReturns(c) ==
    /\ frames[c].pc = "retrieve"
    /\ frames' = [frames EXCEPT ![c].pc = "call"]
    /\ UNCHANGED <<evaluator, dicts, received, oneVars>>

\* the similarity search of call c's current step raises
SearchFails(c) ==
    /\ frames[c].pc = "retrieve"
    /\ RaiseIn(c, RetrievalError)
    /\ UNCHANGED <<evaluator, oneVars>>

\* safe_api_call of call c's current step runs out of attempts
ServiceGivesUp(c) ==
    /\ frames[c].pc = "call"
    /\ RaiseIn(c, ExhaustedError(DefaultMaxAttempts, "timeout"))
    /\ UNCHANGED <<evaluator, oneVars>>

\* the gate of call c gets its reply
GateReply(c, raw) ==
    /\ frames[c].pc = "call"
    /\ frames[c].step = 0
    /\ LET p == ParseReply(raw)
       IN  IF ~p.ok
             THEN RaiseIn(c, ParseError(0, raw))
           ELSE IF "aderencia" \notin DOMAIN p.v
             THEN RaiseIn(c, KeyError("aderencia"))
           ELSE IF IsFuga(p.v)
             THEN /\ frames' = [frames EXCEPT ![c] =
                                   [@ EXCEPT !.pc = "done", !.verificacao = p.v,
                                             !.result = OffTopicResult]]
                  /\ received' = [received EXCEPT ![c] = Append(@, p.v)]
                  /\ UNCHANGED dicts
           ELSE   /\ frames' = [frames EXCEPT ![c] =
                                   [@ EXCEPT !.pc = "retrieve", !.verificacao = p.v,
                                             !.step = 1]]
                  /\ received' = [received EXCEPT ![c] = Append(@, p.v)]
                  /\ dicts' = [dicts EXCEPT ![ResultadosOf(c)] = EmptyDict]
    /\ UNCHANGED <<evaluator, oneVars>>

\* criterion frames[c].step of call c gets its reply; after the fifth the call
\* aggregates and returns
StepReply(c, raw) ==
    /\ frames[c].pc = "call"
    /\ frames[c].step \in 1..5
    /\ LET p == ParseReply(raw)
           d == ResultadosOf(c)
           res == (CompKeys[frames[c].step] :> p.v) @@ dicts[d]
       IN  IF ~p.ok
             THEN RaiseIn(c, ParseError(frames[c].step, raw))
           ELSE IF frames[c].step < 5
             THEN /\ dicts' = [dicts EXCEPT ![d] = res]
                  /\ received' = [received EXCEPT ![c] = Append(@, p.v)]
                  /\ frames' = [frames EXCEPT ![c] =
                                   [@ EXCEPT !.pc = "retrieve", !.step = @ + 1]]
           ELSE IF MissingKey(res) # ""
             THEN RaiseIn(c, KeyError(MissingKey(res)))
           ELSE   /\ dicts' = [dicts EXCEPT ![d] = res]
                  /\ received' = [received EXCEPT ![c] = Append(@, p.v)]
                  /\ frames' = [frames EXCEPT ![c] =
                                   [@ EXCEPT !.pc = "done", !.result = FullResult(res)]]
    /\ UNCHANGED <<evaluator, oneVars>>

NextTwo ==
    \E c \in Calls :
        \/ CallEvaluate(c)
        \/ SearchReturns(c)
        \/ SearchFails(c)
        \/ ServiceGivesUp(c)
        \/ \E raw \in GateReplies : GateReply(c, raw)
        \/ \E raw \in StepReplies(frames[c].step) : StepReply(c, raw)

SpecTwo == InitTwo /\ [][NextTwo]_vars

----------------------------------------------------------------------------
(* recuperar_documentos (and RAGSystem.retrieve, the same code) on its own, *)
(* over a store whose fragments are listed by decreasing similarity to the  *)
(* query.  Chroma's similarity_search(query, k, filter) gives the k most    *)
(* similar fragments whose metadata satisfies the filter.                   *)

\* number of fragments in the store, largest k asked for
MaxDocs == 3
MaxK == 3

StoreCategories == {"tema", "argumentacao", "exemplos"}

\* the stores: fragment i is the i-th most similar to the query
Stores == { [i \in 1..MaxDocs |-> [id |-> i, category |-> cat[i]]] :
              cat \in [1..MaxDocs -> StoreCategories] }

\* Python values given as categorias: None, a string, a list of strings
PyNone == [type |-> "none", s |-> "", l |-> <<>>]
PyStr(x) == [type |-> "str", s |-> x, l |-> <<>>]
PyList(x) == [type |-> "list", s |-> "", l |-> x]

CategoriasArgs ==
    { PyNone, PyStr(""), PyList(<<>>), PyStr("tema"), PyStr("exemplos"),
      PyList(<<"tema">>), PyList(<<"argumentacao", "exemplos">>) }

\* if categorias:
Truthy(v) == (v.type = "str" /\ v.s # "") \/ (v.type = "list" /\ v.l # <<>>)

NoFilter == [op |-> "none", vals |-> {}]

\* variant: a list is handed over as if it were a single category, which no
\* fragment is tagged with
FilterDictNoList(categorias) ==
    IF categorias.type = "list"
    THEN [op |-> "eq", vals |-> {}]
    ELSE [op |-> "eq", vals |-> {categorias.s}]

\* {"category": {"$in": categorias}} for a list, {"category": categorias} else
FilterDict(categorias) ==
    IF categorias.type = "list"
    THEN [op |-> "in", vals |-> { categorias.l[i] : i \in DOMAIN categorias.l }]
    ELSE [op |-> "eq", vals |-> {categorias.s}]

\* the metadata filter of the vector store
Matches(doc, filter) == filter.op = "none" \/ doc.category \in filter.vals

similarity_search(store, k, filter) ==
    LET Keep(doc) == Matches(doc, filter)
        hits == SelectSeq(store, Keep)
    IN  SubSeq(hits, 1, IF k < Len(hits) THEN k ELSE Len(hits))

\* variant: the category filter is dropped
recuperar_documentos_unfiltered(store, query, categorias, k) ==
    similarity_search(store, k, NoFilter)

recuperar_documentos(store, query, categorias, k) ==
    IF Truthy(categorias)
    THEN similarity_search(store, k, FilterDict(categorias))
    ELSE similarity_search(store, k, NoFilter)

\* every variable of the evaluation, of the parsing and of the interleaved
\* calls at rest
AtRest ==
    /\ caller = "none"
    /\ redacao_text = ""
    /\ tema = ""
    /\ step = 0
    /\ verificacao = None
    /\ resultados = EmptyDict
    /\ keyOrder = <<>>
    /\ searches = <<>>
    /\ apiCalls = 0
    /\ replies = 0
    /\ attempt = DefaultAttempt
    /\ attempt0 = DefaultAttempt
    /\ max_attempts = DefaultMaxAttempts
    /\ requests = 0
    /\ sleeps = <<>>
    /\ errLog = <<>>
    /\ rawReply = <<>>
    /\ ret = <<>>
    /\ result = None
    /\ error = None
    /\ parseInput = <<>>
    /\ parseOutput = None
    /\ evaluator = NewEvaluator(TRUE)
    /\ frames = [c \in Calls |-> IdleFrame]
    /\ dicts = [c \in Calls |-> EmptyDict]
    /\ received = [c \in Calls |-> <<>>]
    /\ session_state = InitialSession
    /\ run = NoRun
    /\ cache = EmptyCache

coreVars == <<caller, evalVars, attempt, attempt0, max_attempts, requests, sleeps,
              errLog, rawReply, ret, result, error, parseVars, twoVars>>

restVars == <<coreVars, appVars>>

InitRetrieve ==
    /\ pc = "retrieve_alone"
    /\ AtRest
    /\ args \in { [store |-> st, query |-> "query", categorias |-> c, k |-> k] :
                    st \in Stores, c \in CategoriasArgs, k \in 1..MaxK }
    /\ returned = None

\* recuperar_documentos(query, categorias, k) returns
RetrieveStep ==
    /\ pc = "retrieve_alone"
    /\ returned' = [docs |-> recuperar_documentos(args.store, args.query,
                                                  args.categorias, args.k)]
    /\ pc' = "retrieved"
    /\ UNCHANGED <<restVars, args>>

NextRetrieve == RetrieveStep

SpecRetrieve == InitRetrieve /\ [][NextRetrieve]_vars

----------------------------------------------------------------------------
(* The paragraph functions of utils.py on their own, over texts that are    *)
(* sequences of characters.                                                 *)

\* longest text
MaxTextLen == 7

Newline == "\n"

TextChars == {"a", "b", " ", Newline}

\* the characters str.strip() removes
Whitespace == {" ", Newline}

Texts == UNION { [1..n -> TextChars] : n \in 0..MaxTextLen }

\* texto.split('\n'): the pieces between the newlines, empty ones included
RECURSIVE Split(_)
Split(texto) ==
    LET nl == { i \in DOMAIN texto : texto[i] = Newline }
    IN  IF nl = {}
        THEN <<texto>>
        ELSE <<SubSeq(texto, 1, Min(nl) - 1)>>
                 \o Split(SubSeq(texto, Min(nl) + 1, Len(texto)))

\* p.strip() of a piece
RECURSIVE StrLStrip(_)
StrLStrip(p) == IF p # <<>> /\ Head(p) \in Whitespace THEN StrLStrip(Tail(p)) ELSE p

RECURSIVE StrRStrip(_)
StrRStrip(p) ==
    IF p # <<>> /\ p[Len(p)] \in Whitespace THEN StrRStrip(SubSeq(p, 1, Len(p) - 1)) ELSE p

StrStrip(p) == StrRStrip(StrLStrip(p))

\* [p for p in texto.split('\n') if p.strip()]
Paragrafos(texto) ==
    LET Kept(p) == StrStrip(p) # <<>>
    IN  SelectSeq(Split(texto), Kept)

\* "\n".join(pieces)
RECURSIVE JoinNewline(_)
JoinNewline(pieces) ==
    IF pieces = <<>> THEN <<>>
    ELSE IF Len(pieces) = 1 THEN pieces[1]
    ELSE pieces[1] \o <<Newline>> \o JoinNewline(Tail(pieces))

contar_paragrafos(texto) == Len(Paragrafos(texto))

extrair_introducao(texto) ==
    LET paragrafos == Paragrafos(texto)
    IN  IF paragrafos # <<>> THEN paragrafos[1] ELSE <<>>

\* variant: the slice keeps the last paragraph
extrair_desenvolvimento_to_end(texto) ==
    LET paragrafos == Paragrafos(texto)
    IN  IF Len(paragrafos) <= 2 THEN <<>>
        ELSE JoinNewline(SubSeq(paragrafos, 2, Len(paragrafos)))

\* paragrafos[1:-1]
extrair_desenvolvimento(texto) ==
    LET paragrafos == Paragrafos(texto)
    IN  IF Len(paragrafos) <= 2 THEN <<>>
        ELSE JoinNewline(SubSeq(paragrafos, 2, Len(paragrafos) - 1))

extrair_conclusao(texto) ==
    LET paragrafos == Paragrafos(texto)
    IN  IF Len(paragrafos) >= 2 THEN paragrafos[Len(paragrafos)] ELSE <<>>

InitParagraphs ==
    /\ pc = "utils_alone"
    /\ AtRest
    /\ args \in { [texto |-> t] : t \in Texts }
    /\ returned = None

ContarParagrafos ==
    /\ pc = "utils_alone"
    /\ returned' = [fn |-> "contar_paragrafos", value |-> contar_paragrafos(args.texto)]
    /\ pc' = "utils_returned"
    /\ UNCHANGED <<restVars, args>>

ExtrairIntroducao ==
    /\ pc = "utils_alone"
    /\ returned' = [fn |-> "extrair_introducao", value |-> extrair_introducao(args.texto)]
    /\ pc' = "utils_returned"
    /\ UNCHANGED <<restVars, args>>

ExtrairDesenvolvimento ==
    /\ pc = "utils_alone"
    /\ returned' = [fn |-> "extrair_desenvolvimento",
                    value |-> extrair_desenvolvimento(args.texto)]
    /\ pc' = "utils_returned"
    /\ UNCHANGED <<restVars, args>>

ExtrairConclusao ==
    /\ pc = "utils_alone"
    /\ returned' = [fn |-> "extrair_conclusao", value |-> extrair_conclusao(args.texto)]
    /\ pc' = "utils_returned"
    /\ UNCHANGED <<restVars, args>>

NextParagraphs ==
    \/ ContarParagrafos
    \/ ExtrairIntroducao
    \/ ExtrairDesenvolvimento
    \/ ExtrairConclusao

SpecParagraphs == InitParagraphs /\ [][NextParagraphs]_vars

----------------------------------------------------------------------------
(* extrair_proposta_intervencao on its own, over conclusions that are       *)
(* sequences of words: an occurrence of a marker in some spelling, another  *)
(* word, or a sentence terminator.  No marker is part of another one and    *)
(* none holds a terminator, so an occurrence is one word of the sequence.   *)

\* longest conclusion, in words
MaxConclusaoLen == 5

keywords ==
    <<"portanto", "logo", "assim", "dessa forma", "diante disso", "nesse sentido",
      "por fim", "em sintese", "em suma", "concluindo", "enfim">>

\* [.!?]
Terminators == {".", "!", "?"}

ConclusaoWords == {"portanto", "Portanto", "logo", "Logo", "x", "."}

Conclusoes == UNION { [1..n -> ConclusaoWords] : n \in 0..MaxConclusaoLen }

\* the lower-case spelling re.IGNORECASE compares by
CaseFold(w) ==
    CASE w = "Portanto" -> "portanto"
      [] w = "Logo" -> "logo"
      [] OTHER -> w

\* variant: the search without re.IGNORECASE
ReSearchKeywordCased(keyword, texto) ==
    LET hits == { p \in DOMAIN texto :
                    /\ texto[p] = keyword
                    /\ \E q \in (p + 1)..Len(texto) : texto[q] \in Terminators }
    IN  IF hits = {} THEN 0 ELSE Min(hits)

\* re.search(f"({keyword}[^.!?]*[.!?])", texto, re.IGNORECASE): the start of
\* the leftmost occurrence of the keyword that a terminator follows, however
\* far; 0 when there is none
ReSearchKeyword(keyword, texto) ==
    LET hits == { p \in DOMAIN texto :
                    /\ CaseFold(texto[p]) = keyword
                    /\ \E q \in (p + 1)..Len(texto) :
                          /\ texto[q] \in Terminators
                          /\ \A m \in (p + 1)..(q - 1) : texto[m] \notin Terminators }
    IN  IF hits = {} THEN 0 ELSE Min(hits)

\* for keyword in keywords: ... return texto[start_idx:]; return texto
RECURSIVE ForKeyword(_, _)
ForKeyword(i, texto) ==
    IF i > Len(keywords) THEN texto
    ELSE LET start_idx == ReSearchKeyword(keywords[i], texto)
         IN  IF start_idx # 0
             THEN SubSeq(texto, start_idx, Len(texto))
             ELSE ForKeyword(i + 1, texto)

extrair_proposta_intervencao(texto) == ForKeyword(1, texto)

InitProposta ==
    /\ pc = "proposta_alone"
    /\ AtRest
    /\ args \in { [texto |-> t] : t \in Conclusoes }
    /\ returned = None

ExtrairPropostaIntervencao ==
    /\ pc = "proposta_alone"
    /\ returned' = [value |-> extrair_proposta_intervencao(args.texto)]
    /\ pc' = "proposta_returned"
    /\ UNCHANGED <<restVars, args>>

NextProposta == ExtrairPropostaIntervencao

SpecProposta == InitProposta /\ [][NextProposta]_vars

----------------------------------------------------------------------------
(* safe_api_call called directly, with the scheduling its code relies on:   *)
(* a request to the service comes back, with a reply or with an exception,  *)
(* and time.sleep returns.                                                  *)

\* the pending request of safe_api_call is answered
RequestAnswered ==
    \/ \E e \in ServiceErrors : GenerationFails(e)
    \/ \E raw \in DirectReplies : DirectReturns(raw)

NextDirect ==
    \/ \E a \in 0..MaxArg, m \in 0..MaxArg : SafeApiCallDirect(a, m)
    \/ \E e \in ServiceErrors : GenerationFails(e)
    \/ \E raw \in DirectReplies : DirectReturns(raw)

SpecDirect == Init /\ [][NextDirect]_vars /\ WF_vars(RequestAnswered)

----------------------------------------------------------------------------
(* The page: one action per run of the script, by what set it off *)

InitApp ==
    /\ pc = "app"
    /\ AtRest
    /\ args = None
    /\ returned = None

\* a page is on screen: the user may interact with what it shows
PageShown == pc = "app" /\ run.event # "none"

\* the run ended: what it did and what the page shows.  A run that stops at
\* st.experimental_rerun() in the sidebar has not drawn the form, and one that
\* stops at a button leaves the buttons on screen as they were.
RunEnds(event, sb, ss, processed, messages, rerun) ==
    /\ session_state' = ss
    /\ cache' = sb.store
    /\ run' = [event |-> event, evaluator |-> sb.evaluator, processed |-> processed,
               rerun |-> rerun, messages |-> sb.messages \cup messages,
               submit_disabled |-> IF sb.rerun THEN run.submit_disabled
                                   ELSE ~sb.ss.avaliador_carregado,
               buttons |-> IF rerun THEN run.buttons ELSE Buttons(ss)]
    /\ UNCHANGED <<pc, coreVars, fnVars>>

\* the session opens, or st.experimental_rerun() was called: the script runs
\* with the widgets as they are
Rerun(outcome) ==
    /\ pc = "app"
    /\ run.event = "none" \/ run.rerun
    /\ LET sb == Sidebar(session_state, cache, outcome)
       IN  RunEnds("rerun", sb, sb.ss, FALSE, {}, sb.rerun)

\* the user picks the other model in the radio
SelectModel(m, outcome) ==
    /\ PageShown
    /\ m # session_state.modelo_selection
    /\ LET sb == Sidebar([session_state EXCEPT !.modelo_selection = m], cache, outcome)
       IN  RunEnds("radio", sb, sb.ss, FALSE, {}, sb.rerun)

\* the user presses "Analisar Redacao" with texto and t in the form
SubmitForm(texto, t, outcome, gate, aval) ==
    /\ PageShown
    /\ ~run.submit_disabled
    /\ LET sb == Sidebar(session_state, cache, outcome)
           res == ProcessaSubmissao(sb.ss, sb.evaluator, texto, t, gate, aval)
       IN  IF sb.rerun
           THEN RunEnds("submit", sb, sb.ss, FALSE, {}, TRUE)
           ELSE RunEnds("submit", sb, res.ss, res.processed, res.messages, FALSE)

\* the user presses one of the buttons the page shows
PressButton(b, outcome) ==
    /\ PageShown
    /\ b \in run.buttons
    /\ LET sb == Sidebar(session_state, cache, outcome)
           ss == sb.ss
       IN  IF sb.rerun
           THEN RunEnds(b, sb, ss, FALSE, {}, TRUE)
           ELSE CASE b = "Sugerir Estrutura" ->
                       IF ss.tema = ""
                       THEN RunEnds(b, sb, ss, FALSE, {"Informe o tema primeiro"}, FALSE)
                       ELSE IF sb.evaluator # "object"
                       THEN RunEnds(b, sb, ss, FALSE, {"Erro ao gerar sugestao"}, FALSE)
                       ELSE RunEnds(b, sb, [ss EXCEPT !.sugestao_estrutura = "sugestao"],
                                    FALSE, {}, FALSE)
                  [] b = "Tentar Novamente" ->
                       RunEnds(b, sb, [ss EXCEPT !.redacao_submetida = FALSE,
                                                 !.verificacao_tema = None],
                               FALSE, {}, TRUE)
                  [] OTHER ->
                       RunEnds(b, sb, [ss EXCEPT !.redacao_submetida = FALSE,
                                                 !.avaliacao = None,
                                                 !.avaliada = None,
                                                 !.verificacao_tema = None],
                               FALSE, {}, TRUE)

NextApp ==
    \/ \E outcome \in LoadOutcomes : Rerun(outcome)
    \/ \E m \in Models, outcome \in LoadOutcomes : SelectModel(m, outcome)
    \/ \E texto \in FormTexts, t \in FormTemas, outcome \in LoadOutcomes,
          gate \in AppGateOutcomes, aval \in AppEvaluateOutcomes :
          SubmitForm(texto, t, outcome, gate, aval)
    \/ \E b \in AllButtons, outcome \in LoadOutcomes : PressButton(b, outcome)

SpecApp == InitApp /\ [][NextApp]_vars

----------------------------------------------------------------------------
(* Properties *)

AllKeys == {"competencia_1", "competencia_2", "competencia_3",
            "competencia_4", "competencia_5"}

\* the theme gate returned a verdict whose adherence is a
GateSaid(a) ==
    /\ caller = "evaluate_redacao"
    /\ "aderencia" \in DOMAIN verificacao
    /\ verificacao.aderencia = a

\* evaluate_redacao returned after scoring the five criteria
ScoredResult ==
    /\ pc = "done"
    /\ "aderencia" \in DOMAIN verificacao
    /\ verificacao.aderencia # "Fuga ao tema"

RECURSIVE SumSeq(_)
SumSeq(q) == IF q = <<>> THEN 0 ELSE Head(q) + SumSeq(Tail(q))

DefaultArgs == attempt0 = 0 /\ max_attempts = 3

Exhausted == pc = "raised" /\ "tentativas" \in DOMAIN error

\* C1: whenever the parsed theme verdict is "Fuga ao tema", evaluate_redacao has
\* returned nota_final = 0, exactly the five criterion entries, each with
\* pontuacao 0 and the four texts "N/A", and the fixed off-topic narrative,
\* whatever the essay and the topic.
C1_OffTopicResult ==
    GateSaid("Fuga ao tema") =>
        /\ pc = "done"
        /\ result.nota_final = 0
        /\ DOMAIN result.competencias = AllKeys
        /\ \A k \in AllKeys :
              result.competencias[k] =
                 [pontuacao |-> 0, analise |-> <<"N/A">>, pontos_fortes |-> <<"N/A">>,
                  pontos_fracos |-> <<"N/A">>, sugestoes |-> <<"N/A">>]
        /\ result.avaliacao_geral =
              [avaliacao_geral |-> <<"Redacao com fuga ao tema.">>,
               competencia_mais_forte |-> <<"N/A">>,
               competencia_mais_fraca |-> <<"N/A">>,
               sugestoes_prioritarias |-> <<"Revisar compreensao do tema proposto.">>,
               conclusao |-> <<"A redacao apresenta fuga ao tema.">>]

C1_Witness ==
    /\ GateSaid("Fuga ao tema")
    /\ pc = "done"
    /\ redacao_text = "redacao_b"
    /\ tema = "tema_b"
    /\ result.nota_final = 0

\* C2: once the theme verdict is "Fuga ao tema", the call has made exactly one
\* safe_api_call and one similarity search (the theme gate's) and has returned:
\* no criterion retrieval and no further generation call follows.
C2_OffTopicOneCall ==
    GateSaid("Fuga ao tema") =>
        /\ apiCalls = 1
        /\ searches = <<[categorias |-> "tema", k |-> 3]>>
        /\ pc = "done"
        /\ step = 0

C2_Witness ==
    /\ GateSaid("Fuga ao tema")
    /\ apiCalls = 1
    /\ Len(searches) = 1
    /\ result # None

\* C3: a call that returns after a verdict other than "Fuga ao tema" has made
\* exactly 6 safe_api_call invocations, one after each of the six retrievals
\* (theme gate, then criteria 1..5), and its nota_final is the sum of the five
\* parsed scores.
C3_SixCallsAndSum ==
    ScoredResult =>
        /\ apiCalls = 6
        /\ Len(searches) = 6
        /\ [i \in 1..6 |-> searches[i].categorias] =
              <<"tema", "norma_culta", "tema", "argumentacao", "coesao", "intervencao">>
        /\ DOMAIN resultados = AllKeys
        /\ result.nota_final =
              resultados["competencia_1"].pontuacao + resultados["competencia_2"].pontuacao
              + resultados["competencia_3"].pontuacao + resultados["competencia_4"].pontuacao
              + resultados["competencia_5"].pontuacao

C3_Witness ==
    /\ ScoredResult
    /\ apiCalls = 6
    /\ result.nota_final = 599
    /\ resultados["competencia_2"].pontuacao = 199

\* C4: with its default arguments safe_api_call makes at most 3 requests, and
\* when every request fails it raises after exactly 3.
C4_ThreeAttempts ==
    DefaultArgs =>
        /\ requests <= 3
        /\ (Exhausted => requests = 3)

\* C5 as claimed: the delay before retry N is 2^N seconds, 6 seconds in total
\* when the service fails twice and then succeeds.
C5_Claimed ==
    DefaultArgs =>
        /\ \A n \in DOMAIN sleeps : sleeps[n] = 2 ^ n
        /\ (pc = "returned" /\ Len(errLog) = 2 => SumSeq(sleeps) = 6)

\* C5 amended: with the default arguments the delay before retry N is 2^(N-1)
\* seconds (1, 2, 4); when the service fails twice and then succeeds,
\* safe_api_call returns the reply of the third request after sleeping
\* 1 + 2 = 3 seconds in total.
C5_Backoff ==
    DefaultArgs =>
        /\ \A n \in DOMAIN sleeps : sleeps[n] = 2 ^ (n - 1)
        /\ (pc = "returned" /\ Len(errLog) = 2 =>
               /\ requests = 3
               /\ ret \in DirectReplies
               /\ sleeps = <<1, 2>>
               /\ SumSeq(sleeps) = 3)

C5_Witness ==
    /\ DefaultArgs
    /\ pc = "returned"
    /\ Len(errLog) = 2
    /\ ret = <<Prose>>
    /\ SumSeq(sleeps) = 3

\* C6: the error safe_api_call raises when it gives up carries the message of
\* the error of its last request.
C6_LastError ==
    Exhausted =>
        /\ errLog # <<>>
        /\ error.cause = errLog[Len(errLog)]

C6_Witness ==
    /\ Exhausted
    /\ DefaultArgs
    /\ errLog[1] = "timeout"
    /\ errLog[Len(errLog)] = "overloaded"
    /\ error.cause = "overloaded"

\* C7: a failed similarity search (a search with no generation call after it),
\* a request failure that is not retried, and a reply whose processing fails
\* each end evaluate_redacao with that exception and no result; a result is
\* returned only by a call in which nothing was raised, and it holds all five
\* criteria.
C7_AllOrNothing ==
    /\ (caller = "evaluate_redacao" /\ Len(searches) # apiCalls =>
            pc = "raised" /\ error = [cause |-> "RetrievalUnavailable"] /\ result = None)
    /\ (caller = "evaluate_redacao" /\ Len(errLog) > Len(sleeps) =>
            /\ pc = "raised"
            /\ "tentativas" \in DOMAIN error
            /\ error.cause = errLog[Len(errLog)]
            /\ result = None)
    /\ (rawReply # <<>> => pc = "raised" /\ error # None /\ result = None)
    /\ (pc = "raised" => error # None /\ result = None)
    /\ (result # None =>
            pc = "done" /\ error = None /\ DOMAIN result.competencias = AllKeys)

C7_Witness ==
    /\ pc = "raised"
    /\ caller = "evaluate_redacao"
    /\ step = 3
    /\ rawReply = <<Prose>>
    /\ Len(searches) = 4
    /\ result = None

\* C8: when the reply of the theme gate or of a criterion parses under neither
\* strategy (no valid JSON in the fence, or no fence and no valid JSON as a
\* whole), evaluate_redacao raises an error that carries the raw reply.
C8_RawReplyInError ==
    (pc = "raised" /\ rawReply # <<>> /\ ~ParseReply(rawReply).ok) =>
        /\ "resposta" \in DOMAIN error
        /\ error.resposta = rawReply
        /\ result = None

C8_Witness ==
    /\ pc = "raised"
    /\ step = 1
    /\ rawReply = <<Prose>>
    /\ error.cause = "JSONDecodeError"
    /\ error.resposta = <<Prose>>

\* C9: no theme verdict whose adherence is outside {Adequada, Tangenciamento,
\* Fuga ao tema} is returned by the gate or used to go on to the criteria.
C9_AdherenceEnum ==
    (caller = "evaluate_redacao" /\ "aderencia" \in DOMAIN verificacao) =>
        verificacao.aderencia \in {"Adequada", "Tangenciamento", "Fuga ao tema"}

\* C10: the conclusion of a scored result is the excellent one from 800, the
\* good one from 600 to 799, the average one from 400 to 599 and the
\* insufficient one below 400, and the level named in the overall text agrees.
C10_Bands ==
    ScoredResult =>
        LET n == result.nota_final
            c == result.avaliacao_geral.conclusao
            nivel == result.avaliacao_geral.avaliacao_geral[4]
        IN  /\ n >= 800 =>
                 c = <<"A redacao apresenta um nivel excelente">> /\ nivel = "excelente"
            /\ (n >= 600 /\ n < 800) =>
                 c = <<"A redacao apresenta um bom nivel">> /\ nivel = "bom"
            /\ (n >= 400 /\ n < 600) =>
                 c = <<"A redacao apresenta um nivel medio">> /\ nivel = "medio"
            /\ n < 400 =>
                 c = <<"A redacao apresenta um nivel insuficiente">> /\ nivel = "insuficiente"

C10_Witness ==
    /\ ScoredResult
    /\ result.nota_final = 800
    /\ result.avaliacao_geral.conclusao = <<"A redacao apresenta um nivel excelente">>

\* the band of a returned narrative, read off its conclusion
BandOf(r) ==
    LET c == r.avaliacao_geral.conclusao
    IN  IF c = <<"A redacao apresenta um nivel excelente">> THEN "excellent"
        ELSE IF c = <<"A redacao apresenta um bom nivel">> THEN "good"
        ELSE IF c = <<"A redacao apresenta um nivel medio">> THEN "average"
        ELSE IF c = <<"A redacao apresenta um nivel insuficiente">> THEN "insufficient"
        ELSE "other"

\* C11 (as stated): the bands of the totals 799, 800, 600, 599, 400, 399 are
\* average, excellent, good, average, average, insufficient.
C11_Claimed ==
    ScoredResult =>
        LET n == result.nota_final
        IN  /\ n = 799 => BandOf(result) = "average"
            /\ n = 800 => BandOf(result) = "excellent"
            /\ n = 600 => BandOf(result) = "good"
            /\ n = 599 => BandOf(result) = "average"
            /\ n = 400 => BandOf(result) = "average"
            /\ n = 399 => BandOf(result) = "insufficient"

\* C11 (amended): the bands of the totals 799, 800, 600, 599, 400, 399 are
\* good, excellent, good, average, average, insufficient.
C11_BoundaryBands ==
    ScoredResult =>
        LET n == result.nota_final
        IN  /\ n = 799 => BandOf(result) = "good"
            /\ n = 800 => BandOf(result) = "excellent"
            /\ n = 600 => BandOf(result) = "good"
            /\ n = 599 => BandOf(result) = "average"
            /\ n = 400 => BandOf(result) = "average"
            /\ n = 399 => BandOf(result) = "insufficient"

C11_Witness ==
    /\ ScoredResult
    /\ result.nota_final = 799
    /\ BandOf(result) = "good"

\* C12: the nota_final of a scored result is the plain sum of the five scores
\* the result carries, which are the parsed ones: a negative score or one above
\* 200 is added as it is, so nota_final is not confined to 0..1000.
C12_SumVerbatim ==
    ScoredResult =>
        /\ result.competencias = resultados
        /\ result.nota_final =
              SumSeq([i \in 1..5 |-> result.competencias[CompKeys[i]].pontuacao])

C12_Witness ==
    /\ ScoredResult
    /\ result.competencias["competencia_5"].pontuacao = 240
    /\ result.nota_final = 1040

\* C13: the competencias dictionary of every returned result, off-topic or
\* scored, has exactly the keys competencia_1 .. competencia_5, inserted in
\* that order, each once.
C13_FiveKeysInOrder ==
    result # None =>
        /\ DOMAIN result.competencias = AllKeys
        /\ keyOrder = <<"competencia_1", "competencia_2", "competencia_3",
                        "competencia_4", "competencia_5">>
        /\ { keyOrder[i] : i \in DOMAIN keyOrder } = DOMAIN result.competencias

C13_Witness ==
    /\ ScoredResult
    /\ result.competencias["competencia_4"].pontuacao = 120
    /\ result.competencias["competencia_5"].pontuacao = 240
    /\ Len(keyOrder) = 5
    /\ keyOrder[4] = "competencia_4"

Fields == {"pontuacao", "analise", "pontos_fortes", "pontos_fracos", "sugestoes"}

\* C14: every entry of the competencias dictionary of every returned result
\* carries the five fields pontuacao, analise, pontos_fortes, pontos_fracos and
\* sugestoes, whatever objects the replies held.
C14_AllFields ==
    result # None =>
        \A k \in DOMAIN result.competencias :
            Fields \subseteq DOMAIN result.competencias[k]

\* C15: every safe_api_call of evaluate_redacao's steps gets at most one reply,
\* and when the reply of a step does not parse the call has raised with that
\* step's reply as the last one received: one retrieval, one safe_api_call and
\* one reply for the failing step as for every step before it, and no result.
C15_NoReRequest ==
    caller = "evaluate_redacao" =>
        /\ replies <= apiCalls
        /\ (rawReply # <<>> /\ ~ParseReply(rawReply).ok) =>
              /\ pc = "raised"
              /\ error.cause = "JSONDecodeError"
              /\ result = None
              /\ replies = step + 1
              /\ apiCalls = step + 1
              /\ Len(searches) = step + 1

C15_Witness ==
    /\ pc = "raised"
    /\ step = 2
    /\ rawReply = <<Open, Prose, Close>>
    /\ error.cause = "JSONDecodeError"
    /\ replies = 3
    /\ apiCalls = 3

\* a text that is one JSON value with nothing but white space around it
IsJsonText(s) ==
    \E k \in DOMAIN s :
        /\ s[k].t = "json"
        /\ \A m \in DOMAIN s \ {k} : s[m] = Ws

JsonValueOf(s) == s[CHOOSE k \in DOMAIN s : s[k].t = "json"].v

\* raw has a fenced block: an opening marker and three backquotes after it
HasBlock(raw) ==
    \E i, j \in DOMAIN raw : i < j /\ raw[i] = Open /\ IsFence(raw[j])

\* C16: when the text has a fenced block, the outcome is that of reading the
\* interior of the first block (from the first opening marker to the nearest
\* three backquotes after it), whatever stands before and after the block; when
\* it has none, the outcome is that of reading the whole text; and the
\* extraction succeeds exactly when the text so selected is one JSON value.
C16_TwoStrategies ==
    pc = "parsed" =>
        LET raw == parseInput
            Outcome(txt) ==
                /\ parseOutput.ok = IsJsonText(txt)
                /\ parseOutput.ok => parseOutput.v = JsonValueOf(txt)
        IN  IF HasBlock(raw)
              THEN \E i, j \in DOMAIN raw :
                      /\ i < j
                      /\ raw[i] = Open
                      /\ \A h \in 1..(i - 1) : raw[h] # Open
                      /\ IsFence(raw[j])
                      /\ \A h \in (i + 1)..(j - 1) : ~IsFence(raw[h])
                      /\ Outcome(SubSeq(raw, i + 1, j - 1))
              ELSE Outcome(raw)

C16_Witness ==
    /\ pc = "parsed"
    /\ parseInput = <<Prose, Open, Json(Verdict("Adequada")), Close,
                     Json(Verdict("Fuga ao tema"))>>
    /\ parseOutput.ok
    /\ parseOutput.v = Verdict("Adequada")

\* C17: the first similarity search and the first safe_api_call of a call are
\* the theme gate's; every later one (those of the criteria) is issued from a
\* state in which the gate's reply has been received and parsed and the parsed
\* adherence is not "Fuga ao tema"; and a criterion reply is only ever stored
\* under such a verdict.
C17_GateFirst ==
    [][ LET GatePassed ==
                /\ replies >= 1
                /\ "aderencia" \in DOMAIN verificacao
                /\ verificacao.aderencia # "Fuga ao tema"
        IN  /\ (Len(searches') > Len(searches) /\ Len(searches) = 0) =>
                  searches'[1] = [categorias |-> "tema", k |-> 3]
            /\ (Len(searches') > Len(searches) /\ Len(searches) >= 1) => GatePassed
            /\ (apiCalls' > apiCalls /\ apiCalls >= 1) => GatePassed
            /\ (resultados' # resultados /\ resultados' # EmptyDict) => GatePassed
      ]_vars

C17_Witness ==
    /\ pc = "call"
    /\ step = 1
    /\ Len(searches) = 2
    /\ apiCalls = 2
    /\ replies = 1
    /\ GateSaid("Tangenciamento")

\* C18: a similarity search that is not followed by its step's safe_api_call is
\* a failed one, and then the call has raised the retrieval error with no
\* result: the failing step issued that one search (one search per step so
\* far) and no safe_api_call, and nothing was requested of the generation
\* service for it.
C18_RetrievalFatal ==
    caller = "evaluate_redacao" =>
        /\ Len(searches) # apiCalls => error = RetrievalError
        /\ error = RetrievalError =>
              /\ pc = "raised"
              /\ result = None
              /\ Len(searches) = step + 1
              /\ apiCalls = step
              /\ replies = step
              /\ requests = 0

C18_Witness ==
    /\ pc = "raised"
    /\ error = RetrievalError
    /\ step = 3
    /\ Len(searches) = 4
    /\ searches[4].categorias = "argumentacao"
    /\ apiCalls = 3

\* the display name of a criterion
NomeDe(k) ==
    CASE k = "competencia_1" -> "Dominio da norma padrao"
      [] k = "competencia_2" -> "Compreensao do tema"
      [] k = "competencia_3" -> "Argumentacao"
      [] k = "competencia_4" -> "Coesao textual"
      [] OTHER -> "Proposta de intervencao"

\* C20: a scored result was produced with the six safe_api_call invocations of
\* the gate and the criteria and no more; its strongest text names a criterion
\* of maximal score, with that score, followed by that criterion's
\* pontos_fortes; its weakest text names a criterion of minimal score followed
\* by that criterion's pontos_fracos; and its priority suggestion names the same
\* weakest criterion followed by that criterion's sugestoes.
C20_Narrative ==
    ScoredResult =>
        LET c == result.competencias
            g == result.avaliacao_geral
        IN  /\ apiCalls = 6
            /\ replies = 6
            /\ \E f \in AllKeys :
                  /\ \A k \in AllKeys : c[f].pontuacao >= c[k].pontuacao
                  /\ "pontos_fortes" \in DOMAIN c[f]
                  /\ g.competencia_mais_forte =
                        <<"A competencia mais forte e", NomeDe(f), ToString(c[f].pontuacao)>>
                            \o c[f].pontos_fortes
            /\ \E w \in AllKeys :
                  /\ \A k \in AllKeys : c[w].pontuacao <= c[k].pontuacao
                  /\ {"pontos_fracos", "sugestoes"} \subseteq DOMAIN c[w]
                  /\ g.competencia_mais_fraca =
                        <<"A competencia mais fraca e", NomeDe(w), ToString(c[w].pontuacao)>>
                            \o c[w].pontos_fracos
                  /\ g.sugestoes_prioritarias =
                        <<"Priorize melhorar a competencia", NomeDe(w)>> \o c[w].sugestoes

C20_Witness ==
    /\ ScoredResult
    /\ result.competencias["competencia_1"].pontuacao = 199
    /\ result.avaliacao_geral.competencia_mais_forte =
          <<"A competencia mais forte e", "Argumentacao", "200", "forte y">>
    /\ result.avaliacao_geral.competencia_mais_fraca =
          <<"A competencia mais fraca e", "Compreensao do tema", "-40", "fraco x">>
    /\ result.avaliacao_geral.sugestoes_prioritarias =
          <<"Priorize melhorar a competencia", "Compreensao do tema", "sugestao x">>

\* the result evaluate_redacao owes a call that was given the parsed replies r
ExpectedResult(r) ==
    IF r[1].aderencia = "Fuga ao tema" THEN OffTopicResult
    ELSE FullResult([k \in AllKeys |->
                        r[1 + CHOOSE i \in 1..5 : CompKeys[i] = k]])

\* every call works on its own essay and topic, the verdict and the criterion
\* entries it holds are the ones parsed from the replies it received itself,
\* and the result it returns is the one those replies determine
OwnRepliesOnly ==
    pc = "interleaved" =>
        \A c \in Calls :
              LET f == frames[c]
                  r == received[c]
              IN  /\ f.pc # "idle" =>
                        f.redacao_text = EssayOf[c][1] /\ f.tema = EssayOf[c][2]
                  /\ (f.pc \in {"retrieve", "call"} /\ f.step >= 1) =>
                        /\ Len(r) = f.step
                        /\ f.verificacao = r[1]
                        /\ DOMAIN dicts[c] = { CompKeys[i] : i \in 1..(f.step - 1) }
                        /\ \A i \in 1..(f.step - 1) : dicts[c][CompKeys[i]] = r[1 + i]
                  /\ f.pc = "done" =>
                        /\ r # <<>>
                        /\ f.result = ExpectedResult(r)

\* C19: with two calls in progress on one evaluator, no step of either call
\* changes the evaluator's four attributes (vectorstore, client, model,
\* use_anthropic), and at every moment each call's locals and returned result
\* are determined by its own essay, topic and replies.
C19_Stateless == [][evaluator' = evaluator]_vars /\ []OwnRepliesOnly

C19_Witness ==
    /\ pc = "interleaved"
    /\ frames[1].pc = "done"
    /\ frames[1].result.nota_final = 1000
    /\ frames[2].pc = "call"
    /\ frames[2].step = 5
    /\ \A i \in 1..4 : dicts[2][CompKeys[i]].pontuacao = 0
    /\ \A i \in 1..5 : dicts[1][CompKeys[i]].pontuacao = 200

Rubric == <<"competencia_1", "competencia_2", "competencia_3",
            "competencia_4", "competencia_5">>

\* C21: in a scored result the criterion named as strongest is the first in
\* rubric order among those of maximal score, and the criterion named as
\* weakest the first in rubric order among those of minimal score.
C21_TieBreakFirst ==
    ScoredResult =>
        LET c == result.competencias
            g == result.avaliacao_geral
            maxima == { a \in 1..5 : \A b \in 1..5 :
                           c[Rubric[a]].pontuacao >= c[Rubric[b]].pontuacao }
            minima == { a \in 1..5 : \A b \in 1..5 :
                           c[Rubric[a]].pontuacao <= c[Rubric[b]].pontuacao }
            first(S) == CHOOSE x \in S : \A y \in S : x <= y
        IN  /\ g.competencia_mais_forte[2] = NomeDe(Rubric[first(maxima)])
            /\ g.competencia_mais_fraca[2] = NomeDe(Rubric[first(minima)])
            /\ g.sugestoes_prioritarias[2] = NomeDe(Rubric[first(minima)])

C21_Witness ==
    /\ ScoredResult
    /\ \A k \in AllKeys : result.competencias[k].pontuacao = 200
    /\ result.competencias["competencia_1"].pontos_fortes = <<"forte y">>
    /\ result.competencias["competencia_2"].pontos_fortes = <<"forte x">>
    /\ result.avaliacao_geral.competencia_mais_forte =
          <<"A competencia mais forte e", "Dominio da norma padrao", "200", "forte y">>
    /\ result.avaliacao_geral.competencia_mais_fraca =
          <<"A competencia mais fraca e", "Dominio da norma padrao", "200", "fraco y">>

\* C22 (as stated): the overall text of a scored result whose five entries all
\* carry an analysis holds the first sentence, lower-cased, of the analysis of
\* each of the five criteria.
C22_Claimed ==
    (ScoredResult /\ \A k \in AllKeys : "analise" \in DOMAIN result.competencias[k]) =>
        LET txt == result.avaliacao_geral.avaliacao_geral
        IN  \A k \in AllKeys :
               \E j \in DOMAIN txt : txt[j] = Lower(result.competencias[k].analise[1])

\* C22 (amended): the overall text of a scored result is the total, the level
\* and the first sentence, lower-cased, of the analyses of criteria 1, 2 and 3,
\* and nothing else: the analyses of criteria 4 and 5 do not enter it.
C22_FirstThreeAnalyses ==
    ScoredResult =>
        LET c == result.competencias
            txt == result.avaliacao_geral.avaliacao_geral
        IN  /\ Len(txt) = 8
            /\ txt[1] = "A redacao obteve"
            /\ txt[2] = ToString(result.nota_final)
            /\ txt[3] = "pontos de 1000 possiveis, nivel"
            /\ txt[5] = "O texto demonstra"
            /\ \A i \in 1..3 : txt[5 + i] = Lower(c[Rubric[i]].analise[1])

C22_Witness ==
    /\ ScoredResult
    /\ \A i \in 1..3 : result.competencias[Rubric[i]].analise[1] = "Dominio ADEQUADO"
    /\ result.competencias["competencia_4"].analise = <<"Texto Irregular">>
    /\ result.competencias["competencia_5"].analise = <<"Texto Irregular">>
    /\ \A j \in 6..8 : result.avaliacao_geral.avaliacao_geral[j] = "dominio adequado"

\* C23: every similarity search of a call carries a category filter and asks
\* for at most 3 fragments: the first is the gate's, with the theme category,
\* and the one of criterion i (search i + 1) has the norm, theme, argumentation,
\* cohesion and intervention category respectively; every category used is one
\* that get_document_category can assign.
C23_FilteredBounded ==
    caller = "evaluate_redacao" =>
        \A i \in DOMAIN searches :
            /\ i <= 6
            /\ searches[i].k >= 1
            /\ searches[i].k <= 3
            /\ searches[i].categorias =
                  <<"tema", "norma_culta", "tema", "argumentacao", "coesao",
                    "intervencao">>[i]
            /\ searches[i].categorias \in CategoryVocabulary

C23_Witness ==
    /\ ScoredResult
    /\ Len(searches) = 6
    /\ searches[1] = [categorias |-> "tema", k |-> 3]
    /\ searches[2] = [categorias |-> "norma_culta", k |-> 2]
    /\ searches[6] = [categorias |-> "intervencao", k |-> 2]
    /\ CategoryVocabulary = {"norma_culta", "tema", "argumentacao", "coesao",
                             "intervencao", "estrutura", "exemplos", "geral"}

\* C24: when recuperar_documentos is given a category filter (a category, or
\* a list with at least one), it returns at most k fragments of the store, the
\* most similar first, each tagged with the category given or, for a list,
\* with one of the list's members; and it returns k of them whenever the store
\* holds that many with such a tag.
C24_FilterSemantics ==
    (pc = "retrieved" /\ Truthy(args.categorias)) =>
        LET docs == returned.docs
            c == args.categorias
            wanted == IF c.type = "list" THEN { c.l[i] : i \in DOMAIN c.l } ELSE {c.s}
            tagged == { i \in DOMAIN args.store : args.store[i].category \in wanted }
        IN  /\ Len(docs) <= args.k
            /\ \A j \in DOMAIN docs :
                  /\ docs[j].id \in tagged
                  /\ docs[j] = args.store[docs[j].id]
                  /\ docs[j].category \in wanted
            /\ \A j \in 1..(Len(docs) - 1) : docs[j].id < docs[j + 1].id
            /\ Len(docs) = (IF Cardinality(tagged) < args.k THEN Cardinality(tagged)
                                                          ELSE args.k)

C24_Witness ==
    /\ pc = "retrieved"
    /\ args.categorias = PyList(<<"argumentacao", "exemplos">>)
    /\ args.k = 2
    /\ [i \in 1..3 |-> args.store[i].category] = <<"exemplos", "tema", "argumentacao">>
    /\ returned.docs = <<[id |-> 1, category |-> "exemplos"],
                         [id |-> 3, category |-> "argumentacao"]>>

\* the places where a line of the text starts: the line runs up to the next
\* newline or to the end of the text
LineStarts(t) == {1} \cup { i + 1 : i \in { j \in DOMAIN t : t[j] = Newline } }

LineAt(t, b) ==
    LET ends == { i \in b..Len(t) : t[i] = Newline } \cup {Len(t) + 1}
    IN  SubSeq(t, b, Min(ends) - 1)

\* the starts of the lines holding a character that is not white space
NonBlankStarts(t) ==
    { b \in LineStarts(t) : \E i \in DOMAIN LineAt(t, b) : LineAt(t, b)[i] # " " }

\* the j-th non-blank line
NthNonBlank(t, j) ==
    LET b == CHOOSE x \in NonBlankStarts(t) :
                 Cardinality({ y \in NonBlankStarts(t) : y <= x }) = j
    IN  LineAt(t, b)

\* C25: for a text whose non-blank lines are p1..pn, extrair_introducao
\* returns p1 (the empty string when n = 0), extrair_conclusao returns pn when
\* n >= 2 and the empty string otherwise, extrair_desenvolvimento returns
\* p2..p(n-1) with a newline between neighbours when n >= 3 and the empty
\* string otherwise, and contar_paragrafos returns n.
C25_ParagraphFunctions ==
    pc = "utils_returned" =>
        LET t == args.texto
            n == Cardinality(NonBlankStarts(t))
            v == returned.value
        IN  CASE returned.fn = "contar_paragrafos" -> v = n
              [] returned.fn = "extrair_introducao" ->
                    v = (IF n >= 1 THEN NthNonBlank(t, 1) ELSE <<>>)
              [] returned.fn = "extrair_conclusao" ->
                    v = (IF n >= 2 THEN NthNonBlank(t, n) ELSE <<>>)
              [] returned.fn = "extrair_desenvolvimento" ->
                    IF n <= 2 THEN v = <<>>
                    ELSE \E cut \in [1..(n - 1) -> 0..(Len(v) + 1)] :
                            /\ cut[1] = 0
                            /\ cut[n - 1] = Len(v) + 1
                            /\ \A j \in 1..(n - 2) :
                                  /\ cut[j] < cut[j + 1]
                                  /\ SubSeq(v, cut[j] + 1, cut[j + 1] - 1)
                                        = NthNonBlank(t, j + 1)
                                  /\ j < n - 2 => v[cut[j + 1]] = Newline

C25_Witness ==
    /\ pc = "utils_returned"
    /\ args.texto = <<"a", Newline, "b", Newline, "a", Newline, "b">>
    /\ returned.fn = "extrair_desenvolvimento"
    /\ returned.value = <<"b", Newline, "a">>

\* the places of a conclusion where marker i of the list stands
MarkerAt(t, i) == { p \in DOMAIN t : CaseFold(t[p]) = keywords[i] }

\* C26 as claimed: the result starts at the leftmost occurrence of any marker
\* of the list and runs to the end; with no marker it is the conclusion.
C26_Claimed ==
    pc = "proposta_returned" =>
        LET t == args.texto
            marks == UNION { MarkerAt(t, i) : i \in DOMAIN keywords }
        IN  returned.value = (IF marks = {} THEN t ELSE SubSeq(t, Min(marks), Len(t)))

\* C26: the markers are tried in the order of the list; a marker counts when
\* it occurs, in any case, with a terminator somewhere after it; the result
\* starts at the leftmost occurrence of the first marker of the list that
\* counts and runs to the end, wherever the other markers stand; when no
\* marker counts the result is the conclusion unchanged.
C26_ListOrderWins ==
    pc = "proposta_returned" =>
        LET t == args.texto
            Followed(p) == \E q \in DOMAIN t : q > p /\ t[q] \in Terminators
            counting == { i \in DOMAIN keywords : \E p \in MarkerAt(t, i) : Followed(p) }
        IN  IF counting = {}
            THEN returned.value = t
            ELSE returned.value = SubSeq(t, Min(MarkerAt(t, Min(counting))), Len(t))

C26_Witness ==
    /\ pc = "proposta_returned"
    /\ args.texto = <<"Logo", "x", ".", "Portanto", ".">>
    /\ returned.value = <<"Portanto", ".">>

\* the largest number of requests of safe_api_call(prompt, a, m)
RequestBudget(a, m) == (IF m > a THEN m - a ELSE 0) + 1

\* requests, failures and sleeps of a direct safe_api_call, by where it is
RequestsAccounted ==
    caller = "direct" =>
        /\ requests <= RequestBudget(attempt0, max_attempts)
        /\ pc = "call" =>
              /\ requests = Len(errLog)
              /\ Len(sleeps) = Len(errLog)
              /\ requests < RequestBudget(attempt0, max_attempts)
        /\ pc = "returned" =>
              /\ requests = Len(errLog) + 1
              /\ Len(sleeps) = Len(errLog)
              /\ ret \in DirectReplies
        /\ pc = "raised" =>
              /\ requests = Len(errLog)
              /\ Len(sleeps) = requests - 1
              /\ requests = RequestBudget(attempt0, max_attempts)
              /\ error = ExhaustedError(max_attempts, errLog[Len(errLog)])

\* a step taken after safe_api_call has returned or raised makes no request
EndedStaysEnded ==
    pc \in {"returned", "raised"} => (requests' = requests /\ pc' = pc)

\* C27: safe_api_call(prompt, a, m) ends whatever the service does: it makes
\* at most max(m - a, 0) + 1 requests, has slept once for every failed
\* request that another request follows, and ends by returning the reply of
\* its first successful request or by raising after a failed last request;
\* once it has returned or raised, no request is made.
C27_Terminates ==
    /\ []RequestsAccounted
    /\ [][EndedStaysEnded]_vars
    /\ (pc = "call" ~> pc \in {"returned", "raised"})

C27_Witness ==
    /\ caller = "direct"
    /\ pc = "returned"
    /\ attempt0 = 1
    /\ max_attempts = 3
    /\ requests = 3
    /\ sleeps = <<2, 4>>
    /\ errLog = <<"timeout", "overloaded">>

\* C28: in a run of the page that processes a submission while the session
\* flag avaliador_carregado is set, the name evaluator is bound to the
\* evaluator object.
C28_EvaluatorBound ==
    (pc = "app" /\ run.event = "submit" /\ run.processed
        /\ session_state.avaliador_carregado)
        => run.evaluator = "object"

\* C29: whenever the session holds an evaluation, it is the evaluation of
\* the essay and topic the session holds as redacao_text and tema.
C29_EvaluationOfCurrentEssay ==
    (pc = "app" /\ session_state.avaliacao # None) =>
        session_state.avaliada = [redacao_text |-> session_state.redacao_text,
                                  tema |-> session_state.tema]

\* C30: when the run of a submission has stored the zero-score off-topic
\* result as avaliacao, the verdict it stored as verificacao_tema says
\* "Fuga ao tema".
C30_VerdictGatesEvaluation ==
    (pc = "app" /\ run.event = "submit" /\ "Analise concluida" \in run.messages
        /\ session_state.avaliacao = OffTopicResult)
        => /\ session_state.verificacao_tema # None
           /\ IsFuga(session_state.verificacao_tema)

====
